---- MODULE Spec2Model ----
(***************************************************************************)
(* A model of mcp-worklog.js: the command line entry, the project registry *)
(* (projects.json), the time window resolver parseSinceDate, the history   *)
(* extractor getCommitDiffs, the prompt assembler buildPromptFromDiffs,    *)
(* the back end call callGemini and the worklog writer in generate.        *)
(*                                                                         *)
(* Spec is one invocation, SpecLive the same with fairness, SpecRuns a few *)
(* invocations one after another, SpecConc two invocations at once.        *)
(*                                                                         *)
(* Strings are sequences of string parts; instants are whole hours since   *)
(* 00:00 UTC of the first day of DateNames; a calendar date is an index    *)
(* into DateNames.                                                         *)
(***************************************************************************)
EXTENDS Integers, Sequences, FiniteSets, TLC

VARIABLES
    cfg,            \* the registry file projects.json
    files,          \* output files: path -> [exists, data]
    dirs,           \* output directories that exist
    now,            \* the wall clock, hours (UTC)
    offset,         \* local time minus UTC, hours
    runs,           \* invocations of the script started so far
    pc,             \* where the running invocation is
    cmd,            \* argv[0]
    arg,            \* argv[1]
    since,          \* the resolved window (an ISO string)
    name,           \* generate: the active project's name
    repo,           \* generate: its repository path
    worklogFolderName, \* generate: the output folder name
    hashes,         \* getCommitDiffs: the history list
    limitedHashes,  \* getCommitDiffs: the retained hashes
    diffs,          \* getCommitDiffs: the diffs fetched so far
    prompt,         \* generate: the prompt handed to the back end
    result,         \* generate: the back end's output
    error,          \* the message of the error being thrown
    spinning,       \* startSpinner's interval is active
    stdout,         \* what the invocation printed with console.log
    stderr,         \* what the invocation printed with console.error
    exitCode,       \* the process's exit code, once pc = "exited"
    inflight,       \* child processes launched and not yet exited
    log,            \* the invocation's stages and external calls, in order
    files0,         \* files as they were when the invocation started
    dirs0,          \* dirs as they were when the invocation started
    peer,           \* a second invocation of the script, running at the
                    \* same time: its accesses to the registry and the files
    lastWriter      \* the invocation that wrote file data last

vars == <<cfg, files, dirs, now, offset, runs, pc, cmd, arg, since, name, repo,
          worklogFolderName, hashes, limitedHashes, diffs, prompt, result,
          error, spinning, stdout, stderr, exitCode, inflight, log,
          files0, dirs0, peer, lastWriter>>

envVars == <<cfg, files, dirs, now, offset, runs, files0, dirs0, peer, lastWriter>>
fsVars == <<files, dirs, files0, dirs0>>
outVars == <<stdout, stderr, exitCode>>
argVars == <<cmd, arg>>
ctxVars == <<name, repo, worklogFolderName>>
extractVars == <<hashes, limitedHashes, diffs>>

----------------------------------------------------------------------------
(* Bounds of the model *)

MaxRuns == 3          \* invocations in one behaviour of SpecRuns
MaxCommits == 12      \* the longest history list
FewCommits == 1       \* the longest history list in SpecRuns
MaxExit == 2          \* the largest exit code of the back end
MaxOffset == 5        \* the largest local UTC offset, hours
StartHour == 50       \* the clock at the start: 02:00 UTC of 2025-08-01
TickHours == 20       \* how far the clock moves in one step
MaxNow == 70          \* the clock stops here

----------------------------------------------------------------------------
(* Calendar and clock *)

DateNames == <<"2025-07-30", "2025-07-31", "2025-08-01", "2025-08-02",
               "2025-08-03", "2025-08-04", "2025-08-05">>

Days == 1..Len(DateNames)

Offsets == {0 - MaxOffset, 0, MaxOffset}

\* Date.prototype.getFullYear/getMonth/getDate: the local calendar date of t
LocalDateOf(t, off) == ((t + off) \div 24) + 1

\* new Date(year, month, date): the instant of local midnight of a date
NewLocalDate(d, off) == ((d - 1) * 24) - off

\* Date.prototype.toISOString: the UTC date and the UTC time of day
ToISOString(t) == <<DateNames[(t \div 24) + 1], "T", ToString(t % 24), ":00:00.000Z">>

\* String.prototype.slice(0, 10) of an ISO string: its date part
Slice10(iso) == iso[1]

----------------------------------------------------------------------------
(* parseSinceDate *)

\* the date-only tokens YYYY-MM-DD
DateTokens == {DateNames[d] : d \in {3, 4}}

\* a date-time token without a zone: 20:00 local time of DateNames[3]
DateTimeToken == "2025-08-01T20:00"

\* tokens new Date(string) cannot read
BadTokens == {"not-a-date", "tomorrow"}

Tokens == {"", "today", "TODAY", "yesterday", "Yesterday", DateTimeToken}
              \cup BadTokens \cup DateTokens

\* the tokens of SpecRuns
FewTokens == {"", "yesterday"}

\* a comparison of the token as it was typed
ToLowerCase_AsTyped(s) == s

\* String.prototype.toLowerCase on the tokens of the model
ToLowerCase(s) ==
    CASE s = "TODAY" -> "today"
      [] s = "Yesterday" -> "yesterday"
      [] OTHER -> s

NaN == 0 - 1

\* the calendar date a date-only token names
DayOfToken(s) == CHOOSE d \in Days : DateNames[d] = s

\* new Date(string): a date-only ISO form is read as UTC midnight of that
\* date, a date-time form without a zone as local time; anything else the
\* model offers is an invalid date
DateParse(s, off) ==
    IF s \in DateTokens THEN (DayOfToken(s) - 1) * 24
    ELSE IF s = DateTimeToken THEN ((3 - 1) * 24 + 20) - off
    ELSE NaN

parseSinceDate(input, t, off) ==
    IF input = "" \/ ToLowerCase(input) = "today"
    THEN ToISOString(NewLocalDate(LocalDateOf(t, off), off))
    ELSE IF ToLowerCase(input) = "yesterday"
    THEN ToISOString(NewLocalDate(LocalDateOf(t, off) - 1, off))
    ELSE IF DateParse(input, off) # NaN
    THEN ToISOString(NewLocalDate(LocalDateOf(DateParse(input, off), off), off))
    ELSE ToISOString(NewLocalDate(LocalDateOf(t, off), off))

----------------------------------------------------------------------------
(* The registry: loadConfig, getActiveRepoPath *)

NoName == ""          \* activeProject absent
NoPath == ""          \* a project name with no path
NoFolder == ""        \* worklogFolderName absent

Registry(projects, active, folder) ==
    [exists |-> TRUE, projects |-> projects, activeProject |-> active,
     worklogFolderName |-> folder]

BothProjects == [n \in {"p", "q"} |-> IF n = "p" THEN "/repoP" ELSE "/repoQ"]
OnlyP == [n \in {"p"} |-> "/repoP"]

\* projects.json does not exist: loadConfig throws
NoConfig == [exists |-> FALSE, projects |-> OnlyP, activeProject |-> NoName,
             worklogFolderName |-> NoFolder]

Registries == {Registry(BothProjects, "p", NoFolder),
               Registry(BothProjects, "q", "logs"),
               Registry(OnlyP, "q", NoFolder),
               Registry(BothProjects, NoName, NoFolder),
               NoConfig}

\* names every object answers to without holding them as keys: the members
\* it inherits from Object.prototype
InheritedNames == {"constructor"}

\* what cfg.projects.constructor is, as the text it makes in a command line
ObjectMember == "function Object() { [native code] }"

\* cfg.projects[name]: the value under the key, an inherited member of the
\* object for a name that is no key, undefined otherwise
ProjectPath(c, n) ==
    IF n \in DOMAIN c.projects THEN c.projects[n]
    ELSE IF n \in InheritedNames THEN ObjectMember
    ELSE NoPath

\* a getActiveRepoPath without the check of the project's path
ActiveRepoError_NoPathCheck(c) ==
    IF ~c.exists THEN <<"ENOENT: no such file or directory, open projects.json">>
    ELSE IF c.activeProject = NoName THEN <<"No activeProject in config">>
    ELSE <<>>

\* the error getActiveRepoPath throws on registry c, <<>> when it returns
ActiveRepoError(c) ==
    IF ~c.exists THEN <<"ENOENT: no such file or directory, open projects.json">>
    ELSE IF c.activeProject = NoName THEN <<"No activeProject in config">>
    ELSE IF ProjectPath(c, c.activeProject) = NoPath
    THEN <<"Project path missing for ", c.activeProject>>
    ELSE <<>>

\* what the log keeps of a reading of the registry: the active project
RegistryRead(c) == IF c.exists THEN <<c.activeProject>> ELSE <<>>

\* cfg.worklogFolderName || "worklogs"
FolderOf(c) ==
    IF c.worklogFolderName = NoFolder THEN "worklogs" ELSE c.worklogFolderName

----------------------------------------------------------------------------
(* Text helpers *)

Whitespace == {" ", "\n"}

RECURSIVE TrimStart(_)
TrimStart(s) ==
    IF s # <<>> /\ Head(s) \in Whitespace THEN TrimStart(Tail(s)) ELSE s

RECURSIVE TrimEnd(_)
TrimEnd(s) ==
    IF s # <<>> /\ s[Len(s)] \in Whitespace
    THEN TrimEnd(SubSeq(s, 1, Len(s) - 1))
    ELSE s

\* String.prototype.trim
Trim(s) == TrimEnd(TrimStart(s))

\* a join that puts the last part first
RECURSIVE Join_Reversed(_, _)
Join_Reversed(parts, sep) ==
    IF parts = <<>> THEN <<>>
    ELSE IF Len(parts) = 1 THEN parts[1]
    ELSE Join_Reversed(Tail(parts), sep) \o sep \o parts[1]

\* Array.prototype.join on an array of strings
RECURSIVE Join(_, _)
Join(parts, sep) ==
    IF parts = <<>> THEN <<>>
    ELSE IF Len(parts) = 1 THEN parts[1]
    ELSE parts[1] \o sep \o Join(Tail(parts), sep)

----------------------------------------------------------------------------
(* The history extractor: getCommitHashes, getCommitDiff, getCommitDiffs *)

DiffCap == 10

\* the history list git log prints for a window holding n commits,
\* most recent first
HistoryList(n) == [i \in 1..n |-> "c" \o ToString(n + 1 - i)]

\* what git show prints for commit h
GitShowOutput(h) == <<"Commit: ", h, "\n", "diff --git ", h, "\n">>

\* getCommitDiff's value: stdout.trim()
DiffOf(h) == Trim(GitShowOutput(h))

\* a slice that keeps every hash
LimitHashes_NoCap(hs) == hs

\* hashes.slice(0, 10)
LimitHashes(hs) == SubSeq(hs, 1, IF Len(hs) < DiffCap THEN Len(hs) ELSE DiffCap)

\* a loop that requests every remaining diff at once
NextToFetch_All(limited, fetched) ==
    IF Len(fetched) < Len(limited) THEN (Len(fetched) + 1)..Len(limited) ELSE {}

\* the positions of limited whose diff getCommitDiffs requests next, given
\* the diffs fetched so far: the for loop awaits each one before the next
NextToFetch(limited, fetched) ==
    IF Len(fetched) < Len(limited) THEN {Len(fetched) + 1} ELSE {}

\* exec's maxBuffer, bytes: the default for git log, 20 MiB for git show
ListMaxBuffer == 1024 * 1024
DiffMaxBuffer == 20 * 1024 * 1024

\* how much a child may print: an output that just fits the buffer and one
\* a byte longer (the short lists and diffs of the model stand for outputs
\* of either size)
OutputSizes(buf) == {buf, buf + 1}

\* the exit codes of git -C r: 128 when r is no repository
GitExitCodes(r) == IF r \in {"/repoP", "/repoQ"} THEN {0, 128} ELSE {128}

\* an exec that hands over what fits the buffer and reports no error
ExecError_Truncates(size, buf, code) ==
    IF code # 0 THEN <<"Command failed: git">> ELSE <<>>

\* the err child_process.exec hands to its callback, <<>> for null: the
\* child is killed and an error reported when its output outgrows
\* maxBuffer; a non-zero exit code is an error too
ExecError(size, buf, code) ==
    IF size > buf THEN <<"stdout maxBuffer length exceeded">>
    ELSE IF code # 0 THEN <<"Command failed: git">>
    ELSE <<>>

\* the log's note of an output that outgrew the buffer of query q
Overflow(size, buf, r, q) ==
    IF size > buf THEN <<[op |-> "overflow", repo |-> r, what |-> q]>> ELSE <<>>

----------------------------------------------------------------------------
(* The prompt assembler: buildPromptFromDiffs *)

Separator == <<"\n\n---\n\n">>
TemplateHead == <<"You are a 10x developer assistant.", "Input: Recent git commit diffs below:">>
TemplateTail == <<"Task 1", "Task 2", "Output both sections separated by a horizontal rule.">>

buildPromptFromDiffs(ds) == TemplateHead \o Join(ds, Separator) \o TemplateTail

----------------------------------------------------------------------------
(* The back end: callGemini *)

\* what the back end may have written to its stdout when it closes
GeminiOutputs == {<<>>, <<"x">>, <<" ", "x", "\n">>, <<"x", " ", "y">>,
                  <<"\n", "y", " ">>}

\* the back end's outputs in SpecRuns
FewOutputs == {<<" ", "x", "\n">>, <<"y">>}

\* the back end's outputs in SpecConc: a short report and a longer one
ConcOutputs == {<<"x">>, <<"x", " ", "y">>}

ExitCodes == 0..MaxExit

\* a close handler that resolves whatever the exit code
CloseResolves_Always(code) == TRUE

\* child.on("close"): the promise resolves on code 0 and rejects otherwise
CloseResolves(code) == code = 0

GeminiError(code) == <<"gemini exited code ", ToString(code)>>

----------------------------------------------------------------------------
(* The worklog writer: the tail of generate *)

RepoPaths == {"/repoP", "/repoQ"}
Folders == {"worklogs", "logs"}

\* path.join
PathJoin(dir, part) == Append(dir, part)

OutDir(r, folder) == PathJoin(<<r>>, folder)
OutPath(r, folder, date) == PathJoin(OutDir(r, folder), date \o ".md")

AllDirs == {OutDir(r, f) : r \in RepoPaths, f \in Folders}
AllPaths == {OutPath(r, f, DateNames[d]) : r \in RepoPaths, f \in Folders, d \in Days}

NoFile == [exists |-> FALSE, data |-> <<>>]

\* no second invocation yet
NoPeer == [pc |-> "none", cmd |-> "", arg |-> "", reads |-> 0, repo |-> "",
           folder |-> "", result |-> <<>>, path |-> <<>>, data |-> <<>>,
           cfg |-> <<>>, saved |-> FALSE]

\* a file content with the back end's output as it came
FileContent_NoTrim(date, res) ==
    <<"# Work Log -- ", date, "\n", "\n">> \o res \o <<"\n">>

\* `# Work Log -- ${date}\n\n${result.trim()}\n`
FileContent(date, res) ==
    <<"# Work Log -- ", date, "\n", "\n">> \o Trim(res) \o <<"\n">>

\* a write that appends to the file
WriteFileSync_Append(old, data) == [exists |-> TRUE, data |-> old.data \o data]

\* fs.writeFileSync on a file whose state is old: the data replaces it
WriteFileSync(old, data) == [exists |-> TRUE, data |-> data]

\* the two system calls of fs.writeFileSync, as another process sees them:
\* open with flag w creates the file or cuts it to nothing,
OpenTruncate(old) == [exists |-> TRUE, data |-> <<>>]

\* and write puts the data at the start of the file, over what is there
WriteAt(old, data) ==
    [exists |-> TRUE,
     data |-> data \o SubSeq(old.data, Len(data) + 1, Len(old.data))]

\* what a writeFileSync that throws may leave behind: the file untouched
\* (the open failed) or any proper prefix of the data (the open truncated
\* the file and a write failed)
FailedWrites(old, data) ==
    {old} \cup {[exists |-> TRUE, data |-> SubSeq(data, 1, k)] : k \in 0..(Len(data) - 1)}

----------------------------------------------------------------------------
(* The state machine *)

Ev(op, r, w) == [op |-> op, repo |-> r, what |-> w]

Commands == {"set-active", "generate", "list-projects", "help"}

ArgsOf(c, toks) ==
    IF c = "generate" THEN toks
    ELSE IF c = "set-active" THEN {"p", "q", "zz", ""} \cup InheritedNames
    ELSE {""}

InitWith(offs) ==
    /\ cfg \in Registries
    /\ files = [p \in AllPaths |-> NoFile]
    /\ dirs = {}
    /\ now = StartHour
    /\ offset \in offs
    /\ runs = 0
    /\ pc = "idle"
    /\ cmd = ""
    /\ arg = ""
    /\ since = <<>>
    /\ name = ""
    /\ repo = ""
    /\ worklogFolderName = ""
    /\ hashes = <<>>
    /\ limitedHashes = <<>>
    /\ diffs = <<>>
    /\ prompt = <<>>
    /\ result = <<>>
    /\ error = <<>>
    /\ spinning = FALSE
    /\ stdout = <<>>
    /\ stderr = <<>>
    /\ exitCode = 0
    /\ inflight = {}
    /\ log = <<>>
    /\ files0 = files
    /\ dirs0 = dirs
    /\ peer = NoPeer
    /\ lastWriter = ""

Init == InitWith(Offsets)

\* the operator runs the script: node mcp-worklog.js <cmd> [arg]; the
\* script's const argv, cmd
StartWith(toks) ==
    /\ runs' = runs + 1
    /\ \E c \in Commands : \E a \in ArgsOf(c, toks) : cmd' = c /\ arg' = a
    /\ pc' = "cli"
    /\ since' = <<>>
    /\ name' = ""
    /\ repo' = ""
    /\ worklogFolderName' = ""
    /\ hashes' = <<>>
    /\ limitedHashes' = <<>>
    /\ diffs' = <<>>
    /\ prompt' = <<>>
    /\ result' = <<>>
    /\ error' = <<>>
    /\ spinning' = FALSE
    /\ stdout' = <<>>
    /\ stderr' = <<>>
    /\ exitCode' = 0
    /\ inflight' = {}
    /\ log' = <<>>
    /\ files0' = files
    /\ dirs0' = dirs
    /\ UNCHANGED <<cfg, files, dirs, now, offset, peer, lastWriter>>

\* one invocation
Start == pc = "idle" /\ StartWith(Tokens)

\* one invocation after another
StartRuns == pc \in {"idle", "exited"} /\ runs < MaxRuns /\ StartWith(FewTokens)

\* time passes while the script waits for a child process, and between
\* invocations
Tick ==
    /\ pc \in {"idle", "exited", "awaitList", "awaitDiff", "awaitGemini"}
    /\ now + TickHours <= MaxNow
    /\ now' = now + TickHours
    /\ UNCHANGED <<cfg, files, dirs, offset, runs, files0, dirs0, pc, argVars,
                   since, ctxVars, extractVars, prompt, result, error,
                   spinning, outVars, inflight, log, peer, lastWriter>>

\* cmd === "set-active": setActiveProject(argv[1]) under the entry's try
CliSetActive ==
    /\ pc = "cli" /\ cmd = "set-active"
    /\ IF ~cfg.exists
       THEN /\ stderr' = Append(stderr, <<"ENOENT: no such file or directory, open projects.json">>)
            /\ UNCHANGED <<cfg, stdout>>
       ELSE IF ProjectPath(cfg, arg) = NoPath
       THEN /\ stderr' = Append(stderr, <<"Unknown project: ", arg>>)
            /\ UNCHANGED <<cfg, stdout>>
       ELSE /\ cfg' = [cfg EXCEPT !.activeProject = arg]
            /\ stdout' = Append(stdout, <<"activeProject set to", arg>>)
            /\ UNCHANGED stderr
    /\ pc' = "exited"
    /\ exitCode' = 0
    /\ UNCHANGED <<files, dirs, now, offset, runs, files0, dirs0, argVars,
                   since, ctxVars, extractVars, prompt, result, error,
                   spinning, inflight, log, peer, lastWriter>>

\* cmd === "list-projects"
CliListProjects ==
    /\ pc = "cli" /\ cmd = "list-projects"
    /\ IF ~cfg.exists
       THEN /\ stderr' = Append(stderr, <<"ENOENT: no such file or directory, open projects.json">>)
            /\ UNCHANGED stdout
       ELSE /\ stdout' = stdout \o <<<<"Projects:", ToString(DOMAIN cfg.projects)>>,
                                      <<"activeProject:", cfg.activeProject>>>>
            /\ UNCHANGED stderr
    /\ pc' = "exited"
    /\ exitCode' = 0
    /\ UNCHANGED <<envVars, argVars, since, ctxVars, extractVars, prompt,
                   result, error, spinning, inflight, log>>

\* any other command: the usage line
CliUsage ==
    /\ pc = "cli" /\ cmd \notin {"set-active", "generate", "list-projects"}
    /\ stdout' = Append(stdout, <<"usage: set-active <name> | list-projects | generate [since]">>)
    /\ pc' = "exited"
    /\ exitCode' = 0
    /\ UNCHANGED <<envVars, argVars, since, ctxVars, extractVars, prompt,
                   result, error, spinning, stderr, inflight, log>>

\* a generate branch that reads the registry first and resolves the window
\* after it
CliGenerate_RegistryFirst ==
    /\ pc = "cli" /\ cmd = "generate"
    /\ IF ActiveRepoError(cfg) # <<>>
       THEN /\ error' = ActiveRepoError(cfg)
            /\ log' = Append(log, Ev("registry", "", RegistryRead(cfg)))
            /\ pc' = "entryCatch"
            /\ UNCHANGED <<ctxVars, since>>
       ELSE /\ name' = cfg.activeProject
            /\ repo' = ProjectPath(cfg, cfg.activeProject)
            /\ worklogFolderName' = FolderOf(cfg)
            /\ since' = parseSinceDate(IF arg = "" THEN "today" ELSE arg, now, offset)
            /\ log' = log \o <<Ev("registry", "", RegistryRead(cfg)), Ev("resolve", "", since')>>
            /\ pc' = "try"
            /\ UNCHANGED error
    /\ UNCHANGED <<envVars, argVars, extractVars, prompt, result, spinning,
                   outVars, inflight>>

\* cmd === "generate": rawSince = argv[1] || "today"; parseSinceDate
CliGenerate ==
    /\ pc = "cli" /\ cmd = "generate"
    /\ since' = parseSinceDate(IF arg = "" THEN "today" ELSE arg, now, offset)
    /\ log' = Append(log, Ev("resolve", "", since'))
    /\ pc' = "generate"
    /\ UNCHANGED <<envVars, argVars, ctxVars, extractVars, prompt, result,
                   error, spinning, outVars, inflight>>

\* generate, first line: getActiveRepoPath, outside generate's try
GetActiveRepoPath ==
    /\ pc = "generate"
    /\ log' = Append(log, Ev("registry", "", RegistryRead(cfg)))
    /\ IF ActiveRepoError(cfg) # <<>>
       THEN /\ error' = ActiveRepoError(cfg)
            /\ pc' = "entryCatch"
            /\ UNCHANGED ctxVars
       ELSE /\ name' = cfg.activeProject
            /\ repo' = ProjectPath(cfg, cfg.activeProject)
            /\ worklogFolderName' = FolderOf(cfg)
            /\ pc' = "try"
            /\ UNCHANGED error
    /\ UNCHANGED <<envVars, argVars, since, extractVars, prompt, result,
                   spinning, outVars, inflight>>

\* the entry's catch: console.error(e.message || e), and the script ends
EntryCatch ==
    /\ pc = "entryCatch"
    /\ stderr' = Append(stderr, error)
    /\ pc' = "exited"
    /\ exitCode' = 0
    /\ UNCHANGED <<envVars, argVars, since, ctxVars, extractVars, prompt,
                   result, error, spinning, stdout, inflight, log>>

\* startSpinner, then getCommitDiffs runs up to its first await: the exec
\* of git log inside getCommitHashes
StartListQuery ==
    /\ pc = "try"
    /\ spinning' = TRUE
    /\ inflight' = inflight \cup {Ev("git-log", repo, since)}
    /\ log' = Append(log, Ev("git-log", repo, since))
    /\ pc' = "awaitList"
    /\ UNCHANGED <<envVars, argVars, since, ctxVars, extractVars, prompt,
                   result, error, outVars>>

\* the exec callback of getCommitHashes: reject(err), or the hashes, which
\* getCommitDiffs cuts to limitedHashes
ListQueryExitWith(maxN) ==
    /\ pc = "awaitList"
    /\ \E p \in inflight : p.op = "git-log" /\ inflight' = inflight \ {p}
    /\ \E size \in OutputSizes(ListMaxBuffer) : \E code \in GitExitCodes(repo) :
        IF ExecError(size, ListMaxBuffer, code) # <<>>
        THEN /\ error' = ExecError(size, ListMaxBuffer, code)
             /\ log' = Append(log, Ev("git-log-exit", repo, <<"error">>))
                            \o Overflow(size, ListMaxBuffer, repo, <<"git-log">>)
             /\ pc' = "catch"
             /\ UNCHANGED extractVars
        ELSE \E n \in 0..maxN :
             /\ hashes' = HistoryList(n)
             /\ log' = Append(log, Ev("git-log-exit", repo, <<"ok", ToString(n)>>))
                            \o Overflow(size, ListMaxBuffer, repo, <<"git-log">>)
             /\ limitedHashes' = LimitHashes(hashes')
             /\ diffs' = <<>>
             /\ pc' = "diffLoop"
             /\ UNCHANGED error
    /\ UNCHANGED <<envVars, argVars, since, ctxVars, prompt, result,
                   spinning, outVars>>

ListQueryExit == ListQueryExitWith(MaxCommits)

ListQueryExitRuns == ListQueryExitWith(FewCommits)

\* for (const h of limitedHashes): the exec of git show for the next hash,
\* or the end of the loop
DiffLoop ==
    /\ pc = "diffLoop"
    /\ IF NextToFetch(limitedHashes, diffs) # {}
       THEN /\ inflight' = inflight \cup
                    {Ev("git-show", repo, <<limitedHashes[i]>>) :
                        i \in NextToFetch(limitedHashes, diffs)}
            /\ log' = log \o [k \in 1..Cardinality(NextToFetch(limitedHashes, diffs)) |->
                                Ev("git-show", repo, <<limitedHashes[Len(diffs) + k]>>)]
            /\ pc' = "awaitDiff"
       ELSE /\ pc' = "gotDiffs"
            /\ UNCHANGED <<inflight, log>>
    /\ UNCHANGED <<envVars, argVars, since, ctxVars, extractVars, prompt,
                   result, error, spinning, outVars>>

\* a loop that asks again for a diff whose query failed
DiffQueryExit_Retry ==
    /\ pc = "awaitDiff"
    /\ \E p \in inflight :
        /\ p.op = "git-show"
        /\ inflight' = inflight \ {p}
        /\ \E size \in OutputSizes(DiffMaxBuffer) : \E code \in GitExitCodes(p.repo) :
            IF ExecError(size, DiffMaxBuffer, code) # <<>>
            THEN /\ log' = Append(log, Ev("git-show-exit", p.repo, p.what \o <<"error">>))
                               \o Overflow(size, DiffMaxBuffer, p.repo, p.what)
                 /\ pc' = "diffLoop"
                 /\ UNCHANGED <<diffs, error>>
            ELSE /\ diffs' = Append(diffs, DiffOf(p.what[1]))
                 /\ log' = Append(log, Ev("git-show-exit", p.repo, p.what \o <<"ok">>))
                               \o Overflow(size, DiffMaxBuffer, p.repo, p.what)
                 /\ pc' = "diffLoop"
                 /\ UNCHANGED error
    /\ UNCHANGED <<envVars, argVars, since, ctxVars, hashes, limitedHashes,
                   prompt, result, spinning, outVars>>

\* the exec callback of getCommitDiff: reject(err), or diffs.push(diff)
DiffQueryExit ==
    /\ pc = "awaitDiff"
    /\ \E p \in inflight :
        /\ p.op = "git-show"
        /\ inflight' = inflight \ {p}
        /\ \E size \in OutputSizes(DiffMaxBuffer) : \E code \in GitExitCodes(p.repo) :
            IF ExecError(size, DiffMaxBuffer, code) # <<>>
            THEN /\ error' = ExecError(size, DiffMaxBuffer, code)
                 /\ log' = Append(log, Ev("git-show-exit", p.repo, p.what \o <<"error">>))
                               \o Overflow(size, DiffMaxBuffer, p.repo, p.what)
                 /\ pc' = "catch"
                 /\ UNCHANGED diffs
            ELSE /\ diffs' = Append(diffs, DiffOf(p.what[1]))
                 /\ log' = Append(log, Ev("git-show-exit", p.repo, p.what \o <<"ok">>))
                               \o Overflow(size, DiffMaxBuffer, p.repo, p.what)
                 /\ pc' = "diffLoop"
                 /\ UNCHANGED error
    /\ UNCHANGED <<envVars, argVars, since, ctxVars, hashes, limitedHashes,
                   prompt, result, spinning, outVars>>

\* a generate without the empty-window return
NoCommits_Never(ds) == FALSE

\* if (!diffs.length)
NoCommits(ds) == Len(ds) = 0

\* the empty window: stopSpinner, the message, return
ReportNoCommits ==
    /\ pc = "gotDiffs"
    /\ NoCommits(diffs)
    /\ spinning' = FALSE
    /\ stdout' = Append(stdout, <<"No commits found since">> \o since)
    /\ pc' = "exited"
    /\ exitCode' = 0
    /\ UNCHANGED <<envVars, argVars, since, ctxVars, extractVars, prompt,
                   result, error, stderr, inflight, log>>

\* buildPromptFromDiffs, then callGemini up to its promise: the spawn, the
\* prompt written to the child's stdin
CallGemini ==
    /\ pc = "gotDiffs"
    /\ ~NoCommits(diffs)
    /\ prompt' = buildPromptFromDiffs(diffs)
    /\ inflight' = inflight \cup {Ev("gemini", "", <<>>)}
    /\ log' = log \o <<Ev("prompt", "", <<>>), Ev("gemini", "", <<>>)>>
    /\ pc' = "awaitGemini"
    /\ UNCHANGED <<envVars, argVars, since, ctxVars, extractVars, result,
                   error, spinning, outVars>>

\* a close handler that settles the promise on code 0 only
GeminiCloseWith_NoReject(outs) ==
    /\ pc = "awaitGemini"
    /\ \E p \in inflight : p.op = "gemini" /\ inflight' = inflight \ {p}
    /\ \E code \in ExitCodes : \E out \in outs :
        /\ log' = Append(log, Ev("gemini-exit", "", <<ToString(code)>>))
        /\ IF CloseResolves(code)
           THEN /\ result' = out
                /\ pc' = "write"
           ELSE /\ UNCHANGED <<result, pc>>
    /\ UNCHANGED <<envVars, argVars, since, ctxVars, extractVars, prompt,
                   error, spinning, outVars>>

\* child.on("close", code): resolve(out) or reject
GeminiCloseWith(outs) ==
    /\ pc = "awaitGemini"
    /\ \E p \in inflight : p.op = "gemini" /\ inflight' = inflight \ {p}
    /\ \E code \in ExitCodes : \E out \in outs :
        /\ log' = Append(log, Ev("gemini-exit", "", <<ToString(code)>>))
        /\ IF CloseResolves(code)
           THEN /\ result' = out
                /\ pc' = "write"
                /\ UNCHANGED error
           ELSE /\ error' = GeminiError(code)
                /\ pc' = "catch"
                /\ UNCHANGED result
    /\ UNCHANGED <<envVars, argVars, since, ctxVars, extractVars, prompt,
                   spinning, outVars>>

GeminiClose == GeminiCloseWith(GeminiOutputs)

GeminiCloseRuns == GeminiCloseWith(FewOutputs)

\* the child emits "error" (the gemini executable cannot be spawned): no
\* listener is registered, the error is thrown and node ends the script
GeminiSpawnError ==
    /\ pc = "awaitGemini"
    /\ \E p \in inflight : p.op = "gemini" /\ inflight' = inflight \ {p}
    /\ log' = Append(log, Ev("gemini-error", "", <<>>))
    /\ stderr' = Append(stderr, <<"Uncaught Error: spawn gemini ENOENT">>)
    /\ pc' = "exited"
    /\ exitCode' = 1
    /\ UNCHANGED <<envVars, argVars, since, ctxVars, extractVars, prompt,
                   result, error, spinning, stdout>>

\* after callGemini: stopSpinner, the date read from the clock, mkdirSync,
\* writeFileSync, the "Saved" line; mkdirSync or writeFileSync may throw
SaveWorklog ==
    /\ pc = "write"
    /\ spinning' = FALSE
    /\ LET date == Slice10(ToISOString(now))
           outDir == OutDir(repo, worklogFolderName)
           outPath == OutPath(repo, worklogFolderName, date)
           data == FileContent(date, result)
       IN \/ /\ error' = <<"EACCES: permission denied, mkdir">>
             /\ log' = log \o <<Ev("clock", "", ToISOString(now)),
                               Ev("mkdir", repo, outDir)>>
             /\ pc' = "catch"
             /\ UNCHANGED <<files, dirs, outVars, lastWriter>>
          \/ /\ dirs' = dirs \cup {outDir}
             /\ lastWriter' = "main"
             /\ log' = log \o <<Ev("clock", "", ToISOString(now)),
                               Ev("mkdir", repo, outDir),
                               Ev("write", repo, outPath)>>
             /\ \/ /\ files' = [files EXCEPT ![outPath] = WriteFileSync(@, data)]
                   /\ stdout' = Append(stdout, <<"Saved">> \o outPath)
                   /\ pc' = "exited"
                   /\ exitCode' = 0
                   /\ UNCHANGED <<error, stderr>>
                \/ \E f \in FailedWrites(files[outPath], data) :
                   /\ files' = [files EXCEPT ![outPath] = f]
                   /\ error' = <<"writeFileSync failed">>
                   /\ pc' = "catch"
                   /\ UNCHANGED outVars
    /\ UNCHANGED <<cfg, now, offset, runs, files0, dirs0, argVars, since,
                   ctxVars, extractVars, prompt, result, inflight, peer>>

\* generate's catch: stopSpinner, console.error, process.exit(1)
Catch ==
    /\ pc = "catch"
    /\ spinning' = FALSE
    /\ stderr' = Append(stderr, error)
    /\ pc' = "exited"
    /\ exitCode' = 1
    /\ UNCHANGED <<envVars, argVars, since, ctxVars, extractVars, prompt,
                   result, error, stdout, inflight, log>>

Next ==
    \/ Start
    \/ Tick
    \/ CliSetActive
    \/ CliListProjects
    \/ CliUsage
    \/ CliGenerate
    \/ GetActiveRepoPath
    \/ EntryCatch
    \/ StartListQuery
    \/ ListQueryExit
    \/ DiffLoop
    \/ DiffQueryExit
    \/ ReportNoCommits
    \/ CallGemini
    \/ GeminiClose
    \/ GeminiSpawnError
    \/ SaveWorklog
    \/ Catch

Spec == Init /\ [][Next]_vars

\* the steps the script takes by itself: node runs the entry, the
\* continuations of generate and its catch as soon as they are ready
ScriptStep ==
    \/ CliSetActive
    \/ CliListProjects
    \/ CliUsage
    \/ CliGenerate
    \/ GetActiveRepoPath
    \/ EntryCatch
    \/ StartListQuery
    \/ DiffLoop
    \/ ReportNoCommits
    \/ CallGemini
    \/ SaveWorklog
    \/ Catch

\* a child process ends: the callback of exec, the child's close or error
ProcessExit ==
    \/ ListQueryExit
    \/ DiffQueryExit
    \/ GeminiClose
    \/ GeminiSpawnError

\* one invocation that is never starved, and whose child processes all end
SpecLive == Init /\ [][Next]_vars /\ WF_vars(ScriptStep) /\ WF_vars(ProcessExit)

\* invocations one after another, in UTC
InitRuns == InitWith({0})

NextRuns ==
    \/ StartRuns
    \/ Tick
    \/ CliSetActive
    \/ CliListProjects
    \/ CliUsage
    \/ CliGenerate
    \/ GetActiveRepoPath
    \/ EntryCatch
    \/ StartListQuery
    \/ ListQueryExitRuns
    \/ DiffLoop
    \/ DiffQueryExit
    \/ ReportNoCommits
    \/ CallGemini
    \/ GeminiCloseRuns
    \/ GeminiSpawnError
    \/ SaveWorklog
    \/ Catch

SpecRuns == InitRuns /\ [][NextRuns]_vars

----------------------------------------------------------------------------
(* Two invocations at the same time *)

\* the variables of the first invocation and of the clock
runVars == <<now, offset, runs, files0, dirs0, pc, argVars, since, ctxVars,
             extractVars, prompt, result, error, spinning, outVars, inflight,
             log>>

\* the operator runs generate
StartGenerate == pc = "idle" /\ StartWith(FewTokens) /\ cmd' = "generate"

GeminiCloseConc == GeminiCloseWith(ConcOutputs)

\* a writer that looks the repository up in the registry again
SaveOpen_RereadsRegistry ==
    /\ pc = "write"
    /\ spinning' = FALSE
    /\ LET date == Slice10(ToISOString(now))
           again == IF cfg.exists /\ cfg.activeProject \in DOMAIN cfg.projects
                    THEN cfg.projects[cfg.activeProject] ELSE repo
           outDir == OutDir(again, worklogFolderName)
           outPath == OutPath(again, worklogFolderName, date)
       IN /\ dirs' = dirs \cup {outDir}
          /\ log' = log \o <<Ev("clock", "", ToISOString(now)),
                            Ev("mkdir", again, outDir),
                            Ev("write", again, outPath)>>
          /\ files' = [files EXCEPT ![outPath] = OpenTruncate(@)]
          /\ pc' = "writing"
          /\ UNCHANGED error
    /\ UNCHANGED <<cfg, now, offset, runs, files0, dirs0, argVars, since,
                   ctxVars, extractVars, prompt, result, inflight, outVars,
                   peer, lastWriter>>

\* after callGemini: stopSpinner, the date, mkdirSync, and writeFileSync up
\* to its open; mkdirSync or the open may throw
SaveOpen ==
    /\ pc = "write"
    /\ spinning' = FALSE
    /\ LET date == Slice10(ToISOString(now))
           outDir == OutDir(repo, worklogFolderName)
           outPath == OutPath(repo, worklogFolderName, date)
       IN \/ /\ error' = <<"EACCES: permission denied, mkdir">>
             /\ log' = log \o <<Ev("clock", "", ToISOString(now)),
                               Ev("mkdir", repo, outDir)>>
             /\ pc' = "catch"
             /\ UNCHANGED <<files, dirs>>
          \/ /\ dirs' = dirs \cup {outDir}
             /\ log' = log \o <<Ev("clock", "", ToISOString(now)),
                               Ev("mkdir", repo, outDir),
                               Ev("write", repo, outPath)>>
             /\ \/ /\ files' = [files EXCEPT ![outPath] = OpenTruncate(@)]
                   /\ pc' = "writing"
                   /\ UNCHANGED error
                \/ /\ error' = <<"writeFileSync failed">>
                   /\ pc' = "catch"
                   /\ UNCHANGED files
    /\ UNCHANGED <<cfg, now, offset, runs, files0, dirs0, argVars, since,
                   ctxVars, extractVars, prompt, result, inflight, outVars,
                   peer, lastWriter>>

\* writeFileSync from its write on, then the "Saved" line; the write may
\* throw after a part of the data
SaveWrite ==
    /\ pc = "writing"
    /\ lastWriter' = "main"
    /\ LET outPath == log[Len(log)].what
           date == Slice10(log[Len(log) - 2].what)
           data == FileContent(date, result)
       IN \/ /\ files' = [files EXCEPT ![outPath] = WriteAt(@, data)]
             /\ stdout' = Append(stdout, <<"Saved">> \o outPath)
             /\ pc' = "exited"
             /\ exitCode' = 0
             /\ UNCHANGED <<error, stderr>>
          \/ \E k \in 0..(Len(data) - 1) :
             /\ files' = [files EXCEPT ![outPath] = WriteAt(@, SubSeq(data, 1, k))]
             /\ error' = <<"writeFileSync failed">>
             /\ pc' = "catch"
             /\ UNCHANGED outVars
    /\ UNCHANGED <<cfg, dirs, now, offset, runs, files0, dirs0, argVars, since,
                   ctxVars, extractVars, prompt, result, spinning, inflight,
                   log, peer>>

\* the operator runs the script a second time while the first runs
PeerStart ==
    /\ peer.pc = "none"
    /\ pc \notin {"idle", "exited"}
    /\ \E c \in {"generate", "set-active"} :
       \E a \in (IF c = "set-active" THEN {"p", "q", "zz"} ELSE {""}) :
            peer' = [peer EXCEPT !.pc = "cli", !.cmd = c, !.arg = a]
    /\ UNCHANGED <<cfg, files, dirs, lastWriter, runVars>>

\* the second invocation's setActiveProject up to the open inside
\* saveConfig's writeFileSync: the registry file is cut to nothing, and
\* until the write loadConfig throws for whoever reads it (the model gives
\* that error the message of the missing file)
PeerSetActive ==
    /\ peer.pc = "cli" /\ peer.cmd = "set-active"
    /\ IF ~cfg.exists \/ ProjectPath(cfg, peer.arg) = NoPath
       THEN /\ peer' = [peer EXCEPT !.pc = "exited", !.reads = @ + 1]
            /\ UNCHANGED cfg
       ELSE /\ peer' = [peer EXCEPT !.pc = "saving", !.reads = @ + 1,
                                    !.cfg = [cfg EXCEPT !.activeProject = peer.arg]]
            /\ cfg' = [cfg EXCEPT !.exists = FALSE]
    /\ UNCHANGED <<files, dirs, lastWriter, runVars>>

\* the write inside saveConfig's writeFileSync
PeerSaveConfig ==
    /\ peer.pc = "saving"
    /\ cfg' = peer.cfg
    /\ peer' = [peer EXCEPT !.pc = "exited"]
    /\ UNCHANGED <<files, dirs, lastWriter, runVars>>

\* the second invocation's getActiveRepoPath
PeerGetActiveRepoPath ==
    /\ peer.pc = "cli" /\ peer.cmd = "generate"
    /\ IF ActiveRepoError(cfg) # <<>>
       THEN peer' = [peer EXCEPT !.pc = "exited", !.reads = @ + 1]
       ELSE peer' = [peer EXCEPT !.pc = "running", !.reads = @ + 1,
                                 !.repo = ProjectPath(cfg, cfg.activeProject),
                                 !.folder = FolderOf(cfg)]
    /\ UNCHANGED <<cfg, files, dirs, lastWriter, runVars>>

\* the second invocation's queries and back end call end: with a report,
\* or with no commits or a failure
PeerBackEndEnds ==
    /\ peer.pc = "running"
    /\ peer.repo \in RepoPaths
    /\ \/ \E out \in ConcOutputs : peer' = [peer EXCEPT !.pc = "write", !.result = out]
       \/ peer' = [peer EXCEPT !.pc = "exited"]
    /\ UNCHANGED <<cfg, files, dirs, lastWriter, runVars>>

\* the second invocation's writer up to the open inside writeFileSync
PeerSaveOpen ==
    /\ peer.pc = "write"
    /\ LET date == Slice10(ToISOString(now))
           outDir == OutDir(peer.repo, peer.folder)
           outPath == OutPath(peer.repo, peer.folder, date)
       IN /\ dirs' = dirs \cup {outDir}
          /\ files' = [files EXCEPT ![outPath] = OpenTruncate(@)]
          /\ peer' = [peer EXCEPT !.pc = "writing", !.path = outPath,
                                  !.data = FileContent(date, peer.result)]
    /\ UNCHANGED <<cfg, lastWriter, runVars>>

\* the second invocation's write, and its "Saved" line
PeerSaveWrite ==
    /\ peer.pc = "writing"
    /\ files' = [files EXCEPT ![peer.path] = WriteAt(@, peer.data)]
    /\ lastWriter' = "peer"
    /\ peer' = [peer EXCEPT !.pc = "exited", !.saved = TRUE]
    /\ UNCHANGED <<cfg, dirs, runVars>>

NextConc ==
    \/ StartGenerate
    \/ Tick
    \/ CliGenerate
    \/ GetActiveRepoPath
    \/ EntryCatch
    \/ StartListQuery
    \/ ListQueryExitRuns
    \/ DiffLoop
    \/ DiffQueryExit
    \/ ReportNoCommits
    \/ CallGemini
    \/ GeminiCloseConc
    \/ GeminiSpawnError
    \/ SaveOpen
    \/ SaveWrite
    \/ Catch
    \/ PeerStart
    \/ PeerSetActive
    \/ PeerSaveConfig
    \/ PeerGetActiveRepoPath
    \/ PeerBackEndEnds
    \/ PeerSaveOpen
    \/ PeerSaveWrite

\* two invocations of the script at the same time, in UTC
SpecConc == InitRuns /\ [][NextConc]_vars

TypeOK ==
    /\ pc \in {"idle", "cli", "generate", "entryCatch", "try", "awaitList",
               "diffLoop", "awaitDiff", "gotDiffs", "awaitGemini", "write",
               "writing", "catch", "exited"}
    /\ runs \in 0..MaxRuns
    /\ exitCode \in {0, 1}
    /\ Len(diffs) <= Len(limitedHashes)

----------------------------------------------------------------------------
(* What the log of an invocation says *)

Ops(op) == SelectSeq(log, LAMBDA e : e.op = op)

Count(op) == Len(Ops(op))

Logged(op) == \E k \in 1..Len(log) : log[k].op = op

Min(a, b) == IF a < b THEN a ELSE b

\* the for loop of getCommitDiffs has ended without an error
ExtractionDone == pc \in {"gotDiffs", "awaitGemini", "write"}

----------------------------------------------------------------------------
(* C1: getCommitDiffs requests diffs only for the first min(n, 10) hashes   *)
(* of the history list, in the list's order, never for a hash at position  *)
(* 11 or later; once the loop has ended, the diffs are exactly those of    *)
(* the first min(n, 10) hashes, and the prompt handed to the back end is   *)
(* built from at most 10 diffs.                                            *)
C1_FirstTenInOrder ==
    /\ Count("git-show") <= Min(Len(hashes), 10)
    /\ \A k \in 1..Count("git-show") : Ops("git-show")[k].what = <<hashes[k]>>
    /\ \A e \in inflight : \A k \in 11..Len(hashes) :
            e.op = "git-show" => e.what # <<hashes[k]>>
    /\ Len(diffs) <= 10
    /\ ExtractionDone =>
         /\ Count("git-show") = Min(Len(hashes), 10)
         /\ diffs = [k \in 1..Min(Len(hashes), 10) |-> DiffOf(hashes[k])]
    /\ Logged("gemini") => prompt = buildPromptFromDiffs(diffs)

C1_Witness ==
    /\ pc = "awaitGemini"
    /\ Len(hashes) = 12
    /\ Count("git-show") = 10
    /\ Len(diffs) = 10

----------------------------------------------------------------------------
(* C2: once the back end has exited with a non-zero code, the invocation   *)
(* creates and modifies no output file or directory, prints an error       *)
(* message that contains the exit code, and exits non-zero.                *)
BackEndFailed ==
    \E k \in 1..Len(log) : log[k].op = "gemini-exit" /\ log[k].what # <<"0">>

FailedCode == (CHOOSE e \in {log[k] : k \in 1..Len(log)} : e.op = "gemini-exit").what[1]

C2_BackEndFailureWritesNothing ==
    BackEndFailed =>
        /\ files = files0
        /\ dirs = dirs0
        /\ ~Logged("mkdir") /\ ~Logged("write")
        /\ pc \in {"catch", "exited"}
        /\ pc = "exited" =>
            /\ exitCode # 0
            /\ \E i \in 1..Len(stderr) : \E j \in 1..Len(stderr[i]) :
                    stderr[i][j] = FailedCode
            /\ stdout = <<>>

C2_Witness ==
    /\ BackEndFailed
    /\ FailedCode = "2"
    /\ pc = "exited"
    /\ exitCode = 1

----------------------------------------------------------------------------
(* C3: when the history query returns no commit, the invocation issues no  *)
(* diff query, builds no prompt, launches no back end, writes no directory *)
(* or file, and ends normally with the message "No commits found since     *)
(* {window}".                                                              *)
EmptyWindow ==
    \E k \in 1..Len(log) : log[k].op = "git-log-exit" /\ log[k].what = <<"ok", "0">>

C3_EmptyWindowIsNormal ==
    EmptyWindow =>
        /\ ~Logged("git-show") /\ ~Logged("prompt") /\ ~Logged("gemini")
        /\ ~Logged("mkdir") /\ ~Logged("write")
        /\ Count("git-log") = 1
        /\ inflight = {}
        /\ prompt = <<>>
        /\ files = files0
        /\ dirs = dirs0
        /\ pc \in {"diffLoop", "gotDiffs", "exited"}
        /\ pc = "exited" =>
            /\ exitCode = 0
            /\ stderr = <<>>
            /\ stdout = <<(<<"No commits found since">> \o since)>>

C3_Witness ==
    /\ EmptyWindow
    /\ pc = "exited"
    /\ Len(stdout) = 1

----------------------------------------------------------------------------
(* C4: every failure of a generate invocation (a configuration error, a    *)
(* failed history query, a failed diff query, a non-zero back end exit, a  *)
(* failed file write) ends with the reason printed and a non-zero exit     *)
(* code.                                                                   *)
GenerateFailed == cmd = "generate" /\ error # <<>>

C4_EveryFailureExitsNonZero ==
    (pc = "exited" /\ GenerateFailed) =>
        /\ \E i \in 1..Len(stderr) : stderr[i] = error
        /\ exitCode # 0

----------------------------------------------------------------------------
(* C5: with a registry that has no active project, or whose active project *)
(* has no path, generate fails with a configuration error before any       *)
(* repository query and before any external process is launched, and       *)
(* writes nothing.                                                         *)
ActiveProjectUnusable ==
    /\ cfg.exists
    /\ \/ cfg.activeProject = NoName
       \/ cfg.activeProject \notin DOMAIN cfg.projects
       \/ cfg.projects[cfg.activeProject] = NoPath

ConfigurationErrors ==
    {<<"No activeProject in config">>} \cup
    {<<"Project path missing for ", n>> : n \in {"p", "q"}}

C5_ConfigErrorBeforeAnyQuery ==
    (cmd = "generate" /\ Logged("registry") /\ ActiveProjectUnusable) =>
        /\ pc \in {"entryCatch", "exited"}
        /\ error \in ConfigurationErrors
        /\ \A k \in 1..Len(log) : log[k].op \in {"resolve", "registry"}
        /\ inflight = {}
        /\ files = files0
        /\ dirs = dirs0
        /\ pc = "exited" => stderr = <<error>> /\ stdout = <<>>

C5_Witness ==
    /\ cmd = "generate" /\ Logged("registry") /\ ActiveProjectUnusable
    /\ pc = "exited"
    /\ error = <<"Project path missing for ", "q">>

----------------------------------------------------------------------------
(* C6: a generate invocation that finds n >= 1 commits and in which every  *)
(* external call succeeds issues one history query, min(n, 10) diff        *)
(* queries, builds one prompt, launches the back end once and last writes  *)
(* one file, {repositoryPath}/{outputFolderName}/{date}.md, holding the    *)
(* header line with the date, an empty line, the back end's output without *)
(* its boundary whitespace, and a newline.                                 *)
Succeeded ==
    /\ pc = "exited" /\ cmd = "generate"
    /\ error = <<>>
    /\ Len(hashes) >= 1
    /\ ~Logged("gemini-error")

\* t is r without its leading and trailing whitespace
IsTrimOf(t, r) ==
    /\ t = <<>> \/ (t[1] \notin Whitespace /\ t[Len(t)] \notin Whitespace)
    /\ \E a \in 0..Len(r) : \E b \in a..Len(r) :
        /\ t = SubSeq(r, a + 1, b)
        /\ \A k \in 1..a : r[k] \in Whitespace
        /\ \A k \in (b + 1)..Len(r) : r[k] \in Whitespace

C6_OneFileWithHeaderAndTrimmedReport ==
    Succeeded =>
        /\ Count("git-log") = 1
        /\ Ops("git-log")[1] = Ev("git-log", cfg.projects[cfg.activeProject], since)
        /\ Count("git-show") = Min(Len(hashes), 10)
        /\ Count("prompt") = 1
        /\ Count("gemini") = 1
        /\ Count("mkdir") = 1
        /\ Count("write") = 1
        /\ log[Len(log)].op = "write"
        /\ exitCode = 0
        /\ LET outPath == log[Len(log)].what
               folder == IF cfg.worklogFolderName = NoFolder THEN "worklogs"
                         ELSE cfg.worklogFolderName
               data == files[outPath].data
           IN /\ \E d \in Days :
                   /\ outPath = <<cfg.projects[cfg.activeProject], folder, DateNames[d] \o ".md">>
                   /\ SubSeq(data, 1, 4) = <<"# Work Log -- ", DateNames[d], "\n", "\n">>
              /\ files[outPath].exists
              /\ Len(data) >= 5
              /\ data[Len(data)] = "\n"
              /\ IsTrimOf(SubSeq(data, 5, Len(data) - 1), result)
              /\ \A q \in AllPaths \ {outPath} : files[q] = files0[q]
              /\ stdout = <<(<<"Saved">> \o outPath)>>

C6_Witness ==
    /\ Succeeded
    /\ Len(hashes) = 12
    /\ result = <<" ", "x", "\n">>
    /\ cfg.worklogFolderName = "logs"
    /\ files[<<"/repoQ", "logs", "2025-08-01.md">>].data
            = <<"# Work Log -- ", "2025-08-01", "\n", "\n", "x", "\n">>

----------------------------------------------------------------------------
(* C7: statement of the claim: after a successful generate the output file *)
(* holds only the header and the report of that invocation, nothing of     *)
(* earlier ones; every other invocation (failed, or with an empty window)  *)
(* leaves all output files as they were.                                   *)
Saved ==
    /\ pc = "exited" /\ cmd = "generate"
    /\ Len(stdout) = 1 /\ stdout[1][1] = "Saved"

\* data is the header for some date, an empty line, res trimmed, a newline
HoldsOnlyReport(data, res) ==
    /\ Len(data) >= 5
    /\ \E d \in Days : SubSeq(data, 1, 4) = <<"# Work Log -- ", DateNames[d], "\n", "\n">>
    /\ data[Len(data)] = "\n"
    /\ IsTrimOf(SubSeq(data, 5, Len(data) - 1), res)

\* the contents HoldsOnlyReport accepts for res
ReportFiles(res) ==
    {full \in {<<"# Work Log -- ", DateNames[d], "\n", "\n">> \o SubSeq(res, a, b) \o <<"\n">> :
                  d \in Days, a \in 1..(Len(res) + 1), b \in 0..Len(res)} :
        HoldsOnlyReport(full, res)}

IsProperPrefix(pre, full) ==
    Len(pre) < Len(full) /\ pre = SubSeq(full, 1, Len(pre))

SavedOverwrites ==
    Saved =>
        LET outPath == log[Len(log)].what
        IN /\ files[outPath].exists
           /\ HoldsOnlyReport(files[outPath].data, result)
           /\ \A q \in AllPaths \ {outPath} : files[q] = files0[q]

----------------------------------------------------------------------------
(* Launches and exits of child processes in the log *)

IsLaunch(e) == e.op \in {"git-log", "git-show", "gemini"}

\* x records the exit of the process whose launch e records
IsExitOf(x, e) ==
    \/ e.op = "git-log" /\ x.op = "git-log-exit"
    \/ e.op = "git-show" /\ x.op = "git-show-exit" /\ x.what[1] = e.what[1]
    \/ e.op = "gemini" /\ x.op \in {"gemini-exit", "gemini-error"}

----------------------------------------------------------------------------
(* C8: at most one child process is in flight at any time: the process     *)
(* launched last, until its exit, which is the next thing that happens     *)
(* after its launch; the diffs are                                         *)
(* requested in list order; the back end is launched only after every      *)
(* retained diff has been fetched.                                         *)
C8_OneProcessAtATime ==
    /\ Cardinality(inflight) <= 1
    /\ inflight = IF log # <<>> /\ IsLaunch(log[Len(log)]) THEN {log[Len(log)]} ELSE {}
    /\ \A i \in 1..(Len(log) - 1) : IsLaunch(log[i]) => IsExitOf(log[i + 1], log[i])
    /\ Count("git-show") <= Len(limitedHashes)
    /\ \A k \in 1..Count("git-show") : Ops("git-show")[k].what = <<limitedHashes[k]>>
    /\ Logged("gemini") =>
        /\ Len(diffs) = Len(limitedHashes)
        /\ Count("git-show-exit") = Len(limitedHashes)
        /\ \A k \in 1..Len(limitedHashes) :
                Ops("git-show-exit")[k].what = <<limitedHashes[k], "ok">>

C8_Witness ==
    /\ pc = "awaitDiff"
    /\ Len(limitedHashes) = 10
    /\ Len(diffs) = 9
    /\ inflight = {Ev("git-show", repo, <<limitedHashes[10]>>)}

----------------------------------------------------------------------------
(* The stages of the pipeline *)

StageOf(op) ==
    CASE op = "resolve" -> "Resolver"
      [] op = "registry" -> "Registry"
      [] op \in {"git-log", "git-log-exit", "git-show", "git-show-exit",
                 "overflow"} -> "Extractor"
      [] op = "prompt" -> "Assembler"
      [] op \in {"gemini", "gemini-exit", "gemini-error"} -> "Invoker"
      [] op \in {"clock", "mkdir", "write"} -> "Writer"

Rank(stage, order) == CHOOSE k \in 1..Len(order) : order[k] = stage

\* the stages appear in the log in the given order
StagesInOrder(order) ==
    \A i \in 1..(Len(log) - 1) :
        Rank(StageOf(log[i].op), order) <= Rank(StageOf(log[i + 1].op), order)

\* a stage starts only when every process launched before has exited
StagesComplete ==
    \A j \in 2..Len(log) :
        StageOf(log[j].op) # StageOf(log[j - 1].op) =>
            \A i \in 1..(j - 1) :
                IsLaunch(log[i]) => \E m \in (i + 1)..(j - 1) : IsExitOf(log[m], log[i])

(* C9: statement of the claim: the stages run in the order Registry,       *)
(* Resolver, Extractor, Assembler, Invoker, Writer, each after the one     *)
(* before it has completed.                                                *)
C9_Original ==
    /\ StagesInOrder(<<"Registry", "Resolver", "Extractor", "Assembler", "Invoker", "Writer">>)
    /\ StagesComplete

(* C9, amended: the stages run in the order Resolver, Registry, Extractor, *)
(* Assembler, Invoker, Writer, each after the one before it has completed: *)
(* the time window is resolved before the registry is consulted.           *)
C9_ResolverThenRegistry ==
    /\ StagesInOrder(<<"Resolver", "Registry", "Extractor", "Assembler", "Invoker", "Writer">>)
    /\ StagesComplete
    /\ Logged("registry") => log[1].op = "resolve"
    /\ Logged("git-log") => log[2].op = "registry"

C9_Witness ==
    /\ Saved
    /\ log[1].op = "resolve" /\ log[2].op = "registry" /\ log[3].op = "git-log"
    /\ Logged("git-show") /\ Logged("prompt") /\ Logged("gemini")
    /\ log[Len(log)].op = "write"

----------------------------------------------------------------------------
(* C10: for a YYYY-MM-DD token parseSinceDate returns local midnight of    *)
(* that calendar date, for every local offset; for the empty token and     *)
(* today local midnight of the current local date, for yesterday of the    *)
(* previous one; the result has a zero time of day in local time.          *)
LocalMidnight(d) == ((d - 1) * 24) - offset

CurrentLocalDate == ((now + offset) \div 24) + 1

C10_LocalMidnightOfTheToken ==
    pc = "generate" =>
        /\ arg \in DateTokens =>
                since = ToISOString(LocalMidnight(DayOfToken(arg)))
        /\ arg \in {"", "today", "TODAY"} =>
                since = ToISOString(LocalMidnight(CurrentLocalDate))
        /\ arg \in {"yesterday", "Yesterday"} =>
                since = ToISOString(LocalMidnight(CurrentLocalDate - 1))
        /\ \E t \in 0..(24 * Len(DateNames) - 1) :
                since = ToISOString(t) /\ (t + offset) % 24 = 0

----------------------------------------------------------------------------
(* C11: at one instant parseSinceDate gives one and the same value, local  *)
(* midnight of the current local date, for the absent token, the empty     *)
(* token, today in any letter case and every token new Date cannot read;   *)
(* yesterday is recognised in any letter case; a token that cannot be read *)
(* raises no error: the invocation goes on to generate with a window.      *)
TodayTokens == {"", "today", "TODAY"} \cup BadTokens

C11_FallbackIsToday ==
    /\ (cmd = "generate" /\ pc \notin {"idle", "cli"}) =>
            /\ Count("resolve") = 1
            /\ since = log[1].what
            /\ since # <<>>
    /\ pc = "generate" =>
        /\ error = <<>> /\ stderr = <<>>
        /\ arg \in TodayTokens =>
                since = ToISOString(LocalMidnight(CurrentLocalDate))
        /\ arg \in {"yesterday", "Yesterday"} =>
                since = ToISOString(LocalMidnight(CurrentLocalDate - 1))
        /\ arg \in {"yesterday", "Yesterday"} =>
                since # ToISOString(LocalMidnight(CurrentLocalDate))

C11_Witness ==
    /\ pc = "generate"
    /\ arg = "tomorrow"
    /\ offset = 0 - MaxOffset
    /\ since = <<"2025-07-31", "T", "5", ":00:00.000Z">>

----------------------------------------------------------------------------
(* C12: the date in the output file's name and in its header line is the   *)
(* current local calendar date at the instant the writer reads the clock,  *)
(* the date whose local midnight parseSinceDate returns for today at that  *)
(* instant, for every local offset and time of day; the date of the name   *)
(* and the date of the header are the same.                                *)
Instants == 0..(24 * Len(DateNames) - 1)

\* the instant an ISO string names
InstantOf(iso) == CHOOSE t \in Instants : ToISOString(t) = iso

C12_FileDateIsLocalToday ==
    \A k \in 1..Len(log) :
        log[k].op = "clock" =>
            LET t == InstantOf(log[k].what)
                today == DateNames[LocalDateOf(t, offset)]
            IN /\ parseSinceDate("today", t, offset)
                     = ToISOString(NewLocalDate(LocalDateOf(t, offset), offset))
               /\ \A j \in (k + 1)..Len(log) :
                     log[j].op = "write" =>
                        /\ log[j].what[3] = today \o ".md"
                        /\ Saved =>
                             /\ files[log[j].what].data[2] = today
                             /\ files[log[j].what].data[2] \o ".md" = log[j].what[3]

----------------------------------------------------------------------------
(* C13: nothing is retried: the history list is queried at most once, each *)
(* retained hash at most once, the back end is launched at most once, and  *)
(* once an external call has failed no further process is launched and no  *)
(* directory or file is written.                                           *)
IsFailure(e) ==
    \/ e.op = "git-log-exit" /\ e.what[1] = "error"
    \/ e.op = "git-show-exit" /\ e.what[2] = "error"
    \/ e.op = "gemini-exit" /\ e.what # <<"0">>
    \/ e.op = "gemini-error"

SomeCallFailed == \E k \in 1..Len(log) : IsFailure(log[k])

C13_NoRetry ==
    /\ Count("git-log") <= 1
    /\ Count("gemini") <= 1
    /\ \A i \in 1..Count("git-show") : \A j \in (i + 1)..Count("git-show") :
            Ops("git-show")[i].what # Ops("git-show")[j].what
    /\ Count("git-log-exit") <= Count("git-log")
    /\ Count("git-show-exit") <= Count("git-show")
    /\ \A k \in 1..Len(log) :
            IsFailure(log[k]) =>
                \A j \in (k + 1)..Len(log) :
                    ~IsLaunch(log[j]) /\ log[j].op \notin {"mkdir", "write"}
    /\ SomeCallFailed =>
            /\ inflight = {}
            /\ files = files0 /\ dirs = dirs0
            /\ pc \in {"catch", "exited"}

C13_Witness ==
    /\ pc = "exited"
    /\ exitCode = 1
    /\ Count("git-show") = 4
    /\ IsFailure(log[Len(log)])
    /\ log[Len(log)].op = "git-show-exit"
    /\ Len(diffs) = 3

----------------------------------------------------------------------------
(* C14: if every child process that is launched ends, every generate       *)
(* invocation ends, and in exactly one of three ways: the report saved,    *)
(* no commits found, or a failure reported. Nothing times out or cancels:  *)
(* while the back end has not ended the script has no step of its own to   *)
(* take, and nothing about the invocation but the clock changes.           *)
SavedOutcome == Len(stdout) = 1 /\ stdout[1][1] = "Saved" /\ stderr = <<>>

NoCommitsOutcome ==
    Len(stdout) = 1 /\ stdout[1][1] = "No commits found since" /\ stderr = <<>>

FailureReported == stdout = <<>> /\ Len(stderr) = 1 /\ stderr[1] # <<>>

OneOutcome ==
    Cardinality({o \in {"saved", "none", "failed"} :
                    \/ o = "saved" /\ SavedOutcome
                    \/ o = "none" /\ NoCommitsOutcome
                    \/ o = "failed" /\ FailureReported}) = 1

BackEndRunning == pc = "awaitGemini" /\ inflight # {}

C14_EveryRunEnds ==
    /\ (cmd = "generate" /\ pc = "cli") ~> (pc = "exited" /\ OneOutcome)
    /\ [](cmd = "generate" /\ pc = "exited" => OneOutcome)
    /\ [](cmd = "generate" /\ pc \notin {"idle", "exited"}
             => ~SavedOutcome /\ ~NoCommitsOutcome /\ ~FailureReported)
    /\ [](BackEndRunning => ~ENABLED ScriptStep)
    /\ [][BackEndRunning /\ inflight' = inflight
            => UNCHANGED <<cfg, files, dirs, pc, result, error, spinning,
                           outVars, log>>]_vars

C14_Witness ==
    /\ cmd = "generate" /\ pc = "exited"
    /\ FailureReported
    /\ BackEndFailed
    /\ now = MaxNow

----------------------------------------------------------------------------
(* C15: the prompt built from a batch of k >= 1 diffs is the head of the   *)
(* template, the diffs in batch order, none dropped, repeated or moved,    *)
(* with the separator between each two neighbours and nowhere else (k - 1  *)
(* times in all), and the tail of the template: every position of the      *)
(* prompt is fixed by the batch, so equal batches give equal prompts.      *)
RECURSIVE SumLen(_, _)
SumLen(ds, k) == IF k = 0 THEN 0 ELSE SumLen(ds, k - 1) + Len(ds[k])

\* where diff i starts in the prompt
StartOf(ds, i) ==
    Len(TemplateHead) + SumLen(ds, i - 1) + (i - 1) * Len(Separator) + 1

SeparatorsIn(text) == Cardinality({q \in 1..Len(text) : <<text[q]>> = Separator})

C15_DiffsInOrderWithSeparators ==
    Logged("prompt") =>
        LET k == Len(diffs)
        IN /\ k >= 1
           /\ Len(prompt) = Len(TemplateHead) + SumLen(diffs, k)
                                + (k - 1) * Len(Separator) + Len(TemplateTail)
           /\ SubSeq(prompt, 1, Len(TemplateHead)) = TemplateHead
           /\ SubSeq(prompt, Len(prompt) - Len(TemplateTail) + 1, Len(prompt))
                    = TemplateTail
           /\ \A i \in 1..k :
                 SubSeq(prompt, StartOf(diffs, i), StartOf(diffs, i) + Len(diffs[i]) - 1)
                    = diffs[i]
           /\ \A i \in 1..(k - 1) :
                 SubSeq(prompt, StartOf(diffs, i) + Len(diffs[i]), StartOf(diffs, i + 1) - 1)
                    = Separator
           /\ SeparatorsIn(prompt) = k - 1

C15_Witness ==
    /\ Logged("prompt")
    /\ Len(diffs) = 10
    /\ SeparatorsIn(prompt) = 9
    /\ diffs[1] # diffs[2]
    /\ SubSeq(prompt, 3, 7) = diffs[1]

----------------------------------------------------------------------------
(* C16: when the output of the history query or of a diff query outgrows   *)
(* the buffer exec captures it in, the invocation fails: the error is      *)
(* reported, the exit code is non-zero, no further query is made, no       *)
(* prompt is built, the back end is not launched and nothing is written;   *)
(* the cut output reaches neither the diffs nor the prompt.                *)
Overflowed == Logged("overflow")

C16_OverflowFailsTheRun ==
    Overflowed =>
        /\ log[Len(log)].op = "overflow"
        /\ Count("overflow") = 1
        /\ IsFailure(log[Len(log) - 1])
        /\ error = <<"stdout maxBuffer length exceeded">>
        /\ pc \in {"catch", "exited"}
        /\ inflight = {}
        /\ ~Logged("prompt") /\ ~Logged("gemini")
        /\ ~Logged("mkdir") /\ ~Logged("write")
        /\ prompt = <<>>
        /\ log[Len(log)].what = <<"git-log">> => hashes = <<>> /\ diffs = <<>>
        /\ log[Len(log)].what # <<"git-log">> =>
                /\ Len(diffs) = Count("git-show") - 1
                /\ \A k \in 1..Len(diffs) : diffs[k] = DiffOf(limitedHashes[k])
        /\ files = files0 /\ dirs = dirs0
        /\ pc = "exited" =>
                exitCode = 1 /\ stderr = <<error>> /\ stdout = <<>>

C16_Witness ==
    /\ Overflowed
    /\ pc = "exited"
    /\ log[Len(log)].what = <<"c8">>
    /\ Len(diffs) = 2
    /\ exitCode = 1

----------------------------------------------------------------------------
(* C17: once startSpinner has run, the spinner is stopped before the       *)
(* outcome is printed and before the process ends, on every path: the      *)
(* report saved, no commits, any failure; it is never running when the     *)
(* invocation has ended.                                                   *)
SpinnerStarted == Logged("git-log")

C17_SpinnerStoppedBeforeTheOutcome ==
    SpinnerStarted =>
        /\ (stdout # <<>> \/ stderr # <<>>) => ~spinning
        /\ pc = "exited" => ~spinning

----------------------------------------------------------------------------
(* C19: set-active keeps the registry well formed: from a registry whose   *)
(* activeProject is unset or a key of projects, every step leaves          *)
(* activeProject unset or a key of projects; the registry changes only in  *)
(* a set-active with a name that is a key of projects, and then only in    *)
(* activeProject, which becomes that name; a set-active with any other     *)
(* name reports the unknown project and leaves the registry as it was.     *)
WellFormed(c) == c.activeProject = NoName \/ c.activeProject \in DOMAIN c.projects

SetActiveEnds == pc = "cli" /\ cmd = "set-active" /\ pc' = "exited"

C19_SetActiveKeepsRegistryWellFormed ==
    [][/\ WellFormed(cfg) => WellFormed(cfg')
       /\ cfg' # cfg =>
            /\ SetActiveEnds
            /\ arg \in DOMAIN cfg.projects
            /\ cfg' = [cfg EXCEPT !.activeProject = arg]
       /\ (SetActiveEnds /\ cfg.exists /\ arg \notin DOMAIN cfg.projects) =>
            /\ cfg' = cfg
            /\ stdout' = stdout
            /\ stderr' = Append(stderr, <<"Unknown project: ", arg>>)
       /\ (SetActiveEnds /\ cfg.exists /\ arg \in DOMAIN cfg.projects) =>
            /\ cfg'.activeProject = arg
            /\ cfg'.projects = cfg.projects
            /\ cfg'.worklogFolderName = cfg.worklogFolderName
            /\ cfg'.exists]_vars

----------------------------------------------------------------------------
(* C18: of two generate invocations that run at the same time for the same *)
(* project and date, each reads the registry once and calls writeFileSync  *)
(* at most once, and when both have ended after saving, the file holds     *)
(* exactly the header and the report of the one that wrote last: never a   *)
(* mixture of the two contents, never one after the other.                 *)
BothSaved ==
    /\ Saved
    /\ peer.pc = "exited" /\ peer.cmd = "generate" /\ peer.saved
    /\ peer.path = log[Len(log)].what

C18_LastWriterWins ==
    /\ Count("registry") <= 1
    /\ peer.reads <= 1
    /\ Count("write") <= 1
    /\ BothSaved =>
            HoldsOnlyReport(files[peer.path].data,
                            IF lastWriter = "main" THEN result ELSE peer.result)

----------------------------------------------------------------------------
(* C20: generate reads the registry once, before any query, and never      *)
(* writes it: the registry changes only in a step of the other             *)
(* invocation's set-active. The repository of the history query, of every  *)
(* diff query, of the output directory and of the output file is the path  *)
(* of the project that was active at that one reading, also when the       *)
(* other invocation's set-active changes the registry during the run.      *)
UsesRepo(e) ==
    e.op \in {"git-log", "git-log-exit", "git-show", "git-show-exit",
              "overflow", "mkdir", "write"}

\* the project that was active when generate read the registry
SnapshotName == Ops("registry")[1].what[1]

RegistryChangedSinceRead ==
    /\ Count("registry") = 1
    /\ cfg.exists
    /\ cfg.activeProject # SnapshotName

C20_RegistrySnapshot ==
    /\ [](/\ Count("registry") <= 1
          /\ \A k \in 1..Len(log) :
                UsesRepo(log[k]) =>
                    /\ log[2].op = "registry"
                    /\ k > 2
                    /\ log[k].repo = cfg.projects[SnapshotName]
                    /\ log[k].repo = repo
                    /\ log[k].op \in {"mkdir", "write"} =>
                            log[k].what[1] = cfg.projects[SnapshotName])
    /\ [][/\ (Len(log') > Len(log) /\ log'[Len(log')].op = "registry" /\ cfg.exists)
                => log'[Len(log')].what = <<cfg.activeProject>>
          /\ cfg' # cfg =>
                /\ peer.cmd = "set-active" /\ peer'.pc # peer.pc
                /\ UNCHANGED <<pc, log, repo, name, worklogFolderName>>
                /\ cfg'.projects = cfg.projects]_vars

C20_Witness ==
    /\ Saved
    /\ peer.pc = "exited" /\ peer.cmd = "set-active"
    /\ RegistryChangedSinceRead
    /\ SnapshotName = "p" /\ cfg.activeProject = "q"
    /\ log[Len(log)].what[1] = "/repoP"
    /\ files[log[Len(log)].what].exists

====
